---- MODULE Spec2Model ----
(***************************************************************************)
(* Race-telemetry dashboard: the useTelemetry hook (generator, Buffer) and *)
(* the TelemetryDashboard page (connection manager, batching stage).       *)
(*                                                                         *)
(* Callbacks run to completion one at a time (single-threaded event loop), *)
(* so every handler is one action.  React closures are explicit: a handler *)
(* reads the state values of the render that created it (rPlaying, rHz,    *)
(* rMockMode, the socket's captured isMockMode), not the committed state.  *)
(*                                                                         *)
(* Sample times are integers in units of 1/TUnitsPerSec seconds.           *)
(***************************************************************************)
EXTENDS Integers, Sequences, FiniteSets, TLC

\* ---- bounds of the model ----
MaxSockets == 4
MaxAppends == 3
MaxTimers == 2
MaxPending == 2
MaxViewOps == 2
MaxViewLen == 13

\* ---- program constants ----
\* The two Buffer capacities are scaled down (source: 120000 and 60*60*4);
\* their order maxPoints < MAX_BUFFER_SIZE is the source's.
MAX_BUFFER_SIZE == 4
maxPoints == 2
BATCH_INTERVAL == 100
MOCK_DATA_INTERVAL == 50
initialHz == 4
MaxAttempts == 3

\* Time units per second: i / hz for both rates and the mock deltaT are whole.
TUnitsPerSec == 20 * initialHz

TimeStep == BATCH_INTERVAL \div 2
MaxAge == 2 * BATCH_INTERVAL
HzChoices == {initialHz, 4 * initialHz}
NoTimer == 0 - 1

VARIABLES
  \* useTelemetry
  playing, hz, data, timerRef, indexRef,
  rPlaying, rHz,          \* values captured by the handlers of the last render
  timers,                 \* live setInterval timers of play(): [id, hz]
  nextN,                  \* arrival number of the next sample created
  \* TelemetryDashboard
  phase,                  \* "init" (constructed), "mounted", "unmounted"
  MOCK_DATA_ENABLED,      \* configuration flag, fixed in a run
  connected, latency, isPlaying, isMockMode,
  rMockMode,              \* isMockMode of the connectWebSocket the effect ran with
  socks, wsRef,
  reconnectTimers, reconnectRef,
  heartbeats, heartbeatRef, pingSent,
  attempts,
  pendingData, batchTimer, pendingAge, mockTime,
  \* chart viewport
  chartDomain,            \* the Domain: NoDomain, or [set, xMin, xMax] in rationals
  followTail, isDragging,
  dragStart,              \* NoDrag, or the snapshot [set, x, domain]
  effDataLen,             \* data.length as of the last run of the domain effect
  nView,                  \* zoom and pan requests handled so far
  \* downsampling, called on a point list with a budget
  dsInput, dsBudget, dsOutput, dsFn,
  \* KPI aggregation
  series,                 \* the hook's visibility flags [speed, current, temp]
  kpiInput,               \* the sample list the memo is computed from
  kpiOutput, kpiFn

vars == <<playing, hz, data, timerRef, indexRef, rPlaying, rHz, timers, nextN,
          phase, MOCK_DATA_ENABLED, connected, latency, isPlaying, isMockMode,
          rMockMode, socks, wsRef, reconnectTimers, reconnectRef,
          heartbeats, heartbeatRef, pingSent, attempts,
          pendingData, batchTimer, pendingAge, mockTime,
          chartDomain, followTail, isDragging, dragStart, effDataLen, nView,
          dsInput, dsBudget, dsOutput, dsFn,
          series, kpiInput, kpiOutput, kpiFn>>

connVars == <<phase, MOCK_DATA_ENABLED, connected, latency, isPlaying, isMockMode,
             rMockMode, socks, wsRef, reconnectTimers, reconnectRef,
             heartbeats, heartbeatRef, pingSent, attempts>>
hookVars == <<playing, hz, data, timerRef, indexRef, rPlaying, rHz, timers, nextN>>
batchVars == <<pendingData, batchTimer, pendingAge, mockTime>>
viewVars == <<chartDomain, followTail, isDragging, dragStart, effDataLen, nView>>
kpiVars == <<series, kpiInput, kpiOutput, kpiFn>>
dsVars == <<dsInput, dsBudget, dsOutput, dsFn, kpiVars>>

\* ---- helpers ----
Min(a, b) == IF a < b THEN a ELSE b

\* Array.prototype.slice(-n) / splice(0, length - n): the last n elements.
LastN(s, n) == IF Len(s) > n THEN SubSeq(s, Len(s) - n + 1, Len(s)) ELSE s

Num(v) == [nan |-> FALSE, v |-> v]
NaN == [nan |-> TRUE, v |-> 0]

\* ---- useTelemetry (src/frontend/hooks/useTelemetry.ts) ----

\* pushPoint's state updater: append, then drop the oldest beyond maxPoints.
pushPoint(prev, p) == LastN(Append(prev, p), maxPoints)

\* t = i / hz, in time units.
TickTime(i, h) == (i * TUnitsPerSec) \div h

FreeTimerIds == {i \in 1..MaxTimers : \A t \in timers : t.id # i}

\* play(): guarded by the `playing` of the render that created the handler.
Play ==
  /\ phase = "mounted"
  /\ ~rPlaying
  /\ FreeTimerIds # {}
  /\ LET id == CHOOSE i \in FreeTimerIds : \A j \in FreeTimerIds : i <= j IN
       /\ timers' = timers \cup {[id |-> id, hz |-> rHz]}
       /\ timerRef' = id
  /\ playing' = TRUE
  /\ UNCHANGED <<hz, data, indexRef, rPlaying, rHz, nextN>>
  /\ UNCHANGED connVars
  /\ UNCHANGED batchVars
  /\ UNCHANGED viewVars
  /\ UNCHANGED dsVars

\* pause(): clears only the interval whose handle timerRef holds.
Pause ==
  /\ phase = "mounted"
  /\ playing' = FALSE
  /\ IF timerRef # 0
       THEN /\ timers' = {t \in timers : t.id # timerRef}
            /\ timerRef' = 0
       ELSE UNCHANGED <<timers, timerRef>>
  /\ UNCHANGED <<hz, data, indexRef, rPlaying, rHz, nextN>>
  /\ UNCHANGED connVars
  /\ UNCHANGED batchVars
  /\ UNCHANGED viewVars
  /\ UNCHANGED dsVars

\* The setInterval callback of play(): one generator sample through pushPoint.
HookTick(tm) ==
  /\ tm \in timers
  /\ nextN <= MaxAppends
  /\ data' = pushPoint(data, [t |-> TickTime(indexRef, tm.hz), n |-> nextN])
  /\ indexRef' = indexRef + 1
  /\ nextN' = nextN + 1
  /\ UNCHANGED <<playing, hz, timerRef, rPlaying, rHz, timers>>
  /\ UNCHANGED connVars
  /\ UNCHANGED batchVars
  /\ UNCHANGED viewVars
  /\ UNCHANGED dsVars

Clear_KeepsIndex ==
  /\ phase = "mounted"
  /\ data' = <<>>
  /\ UNCHANGED <<playing, hz, timerRef, indexRef, rPlaying, rHz, timers, nextN>>
  /\ UNCHANGED connVars
  /\ UNCHANGED batchVars
  /\ UNCHANGED viewVars
  /\ UNCHANGED dsVars

\* clear()
Clear ==
  /\ phase = "mounted"
  /\ data' = <<>>
  /\ indexRef' = 0
  /\ UNCHANGED <<playing, hz, timerRef, rPlaying, rHz, timers, nextN>>
  /\ UNCHANGED connVars
  /\ UNCHANGED batchVars
  /\ UNCHANGED viewVars
  /\ UNCHANGED dsVars

\* setHz(h)
SetHz(h) ==
  /\ phase = "mounted"
  /\ h # hz
  /\ hz' = h
  /\ UNCHANGED <<playing, data, timerRef, indexRef, rPlaying, rHz, timers, nextN>>
  /\ UNCHANGED connVars
  /\ UNCHANGED batchVars
  /\ UNCHANGED viewVars
  /\ UNCHANGED dsVars

\* ---- TelemetryDashboard: connection manager (src/unnamed/part_000) ----

BackoffDelay_Linear(a) == Min(1000 * (a + 1), 30000)

\* backoffDelay = Math.min(1000 * Math.pow(2, attempts), 30000)
BackoffDelay(a) == Min(1000 * 2^a, 30000)

NewSock_Degraded(m) == [st |-> "connecting", mock |-> TRUE, backoff |-> 0]

\* A socket as created by `new WebSocket`: readyState, the isMockMode its
\* handlers captured, and the backoffDelay its onclose computed (0: none).
NewSock(m) == [st |-> "connecting", mock |-> m, backoff |-> 0]

\* ws.close() on wsRef.current: a connecting or open socket starts closing
\* (its onclose fires later); a closing or closed one is unaffected.
CloseCall(s0, ref) ==
  IF ref # 0 /\ s0[ref].st \in {"connecting", "open"}
    THEN [s0 EXCEPT ![ref].st = "closing"]
    ELSE s0

SkipConnect_Never(m) == FALSE

\* `if (isMockMode) return` at the head of connectWebSocket.
SkipConnect(m) == m

\* connectWebSocket() of a render whose isMockMode is m, run on sockets s0.
\* `new WebSocket` either yields a connecting socket or throws (catch branch).
ConnectWebSocket(m, s0) ==
  IF SkipConnect(m)
    THEN /\ socks' = s0
         /\ UNCHANGED <<wsRef, isMockMode>>
    ELSE \/ /\ Len(s0) < MaxSockets
            /\ socks' = Append(s0, NewSock(m))
            /\ wsRef' = Len(s0) + 1
            /\ UNCHANGED isMockMode
         \/ /\ socks' = s0
            /\ isMockMode' = (MOCK_DATA_ENABLED \/ isMockMode)
            /\ UNCHANGED wsRef

\* The effect's cleanup: close the socket, clear the timers the refs hold.
\* (mockDataIntervalRef is never assigned: the effect that set it is
\* commented out.)
Cleanup ==
  /\ reconnectTimers' = reconnectTimers \ {reconnectRef}
  /\ heartbeats' = heartbeats \ {heartbeatRef}
  /\ batchTimer' = NoTimer

\* First run of the effect after construction.
Mount ==
  /\ phase = "init"
  /\ phase' = "mounted"
  /\ ConnectWebSocket(isMockMode, socks)
  /\ UNCHANGED <<MOCK_DATA_ENABLED, connected, latency, isPlaying, rMockMode,
                 reconnectTimers, reconnectRef, heartbeats, heartbeatRef,
                 pingSent, attempts>>
  /\ UNCHANGED hookVars
  /\ UNCHANGED batchVars
  /\ UNCHANGED viewVars
  /\ UNCHANGED dsVars

\* A re-render commits the state to the handlers' closures; when isMockMode
\* changed, connectWebSocket is a new callback and the effect re-runs:
\* cleanup, then connectWebSocket() of the new render.
Render ==
  /\ phase = "mounted"
  /\ rPlaying # playing \/ rHz # hz \/ rMockMode # isMockMode
  /\ rPlaying' = playing
  /\ rHz' = hz
  /\ rMockMode' = isMockMode
  /\ IF rMockMode # isMockMode
       THEN /\ Cleanup
            /\ ConnectWebSocket(isMockMode, CloseCall(socks, wsRef))
       ELSE UNCHANGED <<reconnectTimers, heartbeats, batchTimer, socks, wsRef,
                        isMockMode>>
  /\ UNCHANGED <<playing, hz, data, timerRef, indexRef, timers, nextN>>
  /\ UNCHANGED <<phase, MOCK_DATA_ENABLED, connected, latency, isPlaying,
                 reconnectRef, heartbeatRef, pingSent, attempts>>
  /\ UNCHANGED <<pendingData, pendingAge, mockTime>>
  /\ UNCHANGED viewVars
  /\ UNCHANGED dsVars

\* Teardown: the effect's cleanup on unmount.
Unmount ==
  /\ phase = "mounted"
  /\ phase' = "unmounted"
  /\ Cleanup
  /\ socks' = CloseCall(socks, wsRef)
  /\ UNCHANGED <<MOCK_DATA_ENABLED, connected, latency, isPlaying, isMockMode,
                 rMockMode, wsRef, reconnectRef, heartbeatRef, pingSent, attempts>>
  /\ UNCHANGED hookVars
  /\ UNCHANGED <<pendingData, pendingAge, mockTime>>
  /\ UNCHANGED viewVars
  /\ UNCHANGED dsVars

SockOpen_NoHeartbeat(s) ==
  /\ s \in 1..Len(socks)
  /\ socks[s].st = "connecting"
  /\ socks' = [socks EXCEPT ![s].st = "open"]
  /\ connected' = TRUE
  /\ isMockMode' = FALSE
  /\ attempts' = 0
  /\ UNCHANGED <<phase, MOCK_DATA_ENABLED, latency, isPlaying, rMockMode, wsRef,
                 reconnectTimers, reconnectRef, pingSent, heartbeats, heartbeatRef>>
  /\ UNCHANGED hookVars
  /\ UNCHANGED batchVars
  /\ UNCHANGED viewVars
  /\ UNCHANGED dsVars

\* ws.onopen
SockOpen(s) ==
  /\ s \in 1..Len(socks)
  /\ socks[s].st = "connecting"
  /\ socks' = [socks EXCEPT ![s].st = "open"]
  /\ connected' = TRUE
  /\ isMockMode' = FALSE
  /\ attempts' = 0
  /\ heartbeats' = heartbeats \cup {s}
  /\ heartbeatRef' = s
  /\ UNCHANGED <<phase, MOCK_DATA_ENABLED, latency, isPlaying, rMockMode, wsRef,
                 reconnectTimers, reconnectRef, pingSent>>
  /\ UNCHANGED hookVars
  /\ UNCHANGED batchVars
  /\ UNCHANGED viewVars
  /\ UNCHANGED dsVars

\* The heartbeat interval started by socket s's onopen: ping while OPEN.
HeartbeatFire(s) ==
  /\ s \in heartbeats
  /\ pingSent' = (pingSent \/ socks[s].st = "open")
  /\ UNCHANGED <<phase, MOCK_DATA_ENABLED, connected, latency, isPlaying, isMockMode,
                 rMockMode, socks, wsRef, reconnectTimers, reconnectRef,
                 heartbeats, heartbeatRef, attempts>>
  /\ UNCHANGED hookVars
  /\ UNCHANGED batchVars
  /\ UNCHANGED viewVars
  /\ UNCHANGED dsVars

ScheduleReconnect_Inclusive(a) == a <= MaxAttempts

\* ws.onclose's else-branch: compute the delay, count the attempt, and
\* schedule a reconnect while attempts < 3.
ScheduleReconnect(a) == a < MaxAttempts

onclose_connected_kept == connected

\* The `connected` that ws.onclose writes into wsStatus.
onclose_connected == FALSE

\* ws.onclose of socket s (the socket failed, was closed by the peer, or
\* finished a close() call).
SockClose(s) ==
  /\ s \in 1..Len(socks)
  /\ socks[s].st \in {"connecting", "open", "closing"}
  /\ connected' = onclose_connected
  /\ heartbeats' = heartbeats \ {heartbeatRef}
  /\ IF MOCK_DATA_ENABLED /\ ~socks[s].mock
       THEN /\ isMockMode' = TRUE
            /\ socks' = [socks EXCEPT ![s].st = "closed"]
            /\ UNCHANGED <<attempts, reconnectTimers, reconnectRef>>
       ELSE /\ socks' = [socks EXCEPT ![s].st = "closed",
                                      ![s].backoff = BackoffDelay(attempts)]
            /\ attempts' = attempts + 1
            /\ IF ScheduleReconnect(attempts + 1)
                 THEN /\ reconnectTimers' = reconnectTimers \cup {s}
                      /\ reconnectRef' = s
                      /\ UNCHANGED isMockMode
                 ELSE /\ isMockMode' = (MOCK_DATA_ENABLED \/ isMockMode)
                      /\ UNCHANGED <<reconnectTimers, reconnectRef>>
  /\ UNCHANGED <<phase, MOCK_DATA_ENABLED, latency, isPlaying, rMockMode, wsRef,
                 heartbeatRef, pingSent>>
  /\ UNCHANGED hookVars
  /\ UNCHANGED batchVars
  /\ UNCHANGED viewVars
  /\ UNCHANGED dsVars

\* The reconnect timeout scheduled by socket s's onclose fires after
\* socks[s].backoff ms: connectWebSocket() of that socket's render.
ReconnectFire(s) ==
  /\ s \in reconnectTimers
  /\ reconnectTimers' = reconnectTimers \ {s}
  /\ ConnectWebSocket(socks[s].mock, socks)
  /\ UNCHANGED <<phase, MOCK_DATA_ENABLED, connected, latency, isPlaying, rMockMode,
                 reconnectRef, heartbeats, heartbeatRef, pingSent, attempts>>
  /\ UNCHANGED hookVars
  /\ UNCHANGED batchVars
  /\ UNCHANGED viewVars
  /\ UNCHANGED dsVars

\* ---- inbound messages and the batching stage ----

\* Wire messages as ws.onmessage distinguishes them: text JSON.parse rejects,
\* JSON `null` (reading .type throws), a pong with or without a numeric
\* timestamp, a telemetry payload, and the other type tags.
Msg(ty, h, x, tt) == [type |-> ty, hasTs |-> h, ts |-> x, t |-> tt]
PongTs == {1}
NowChoices == {1, 2}
TelemetryTs == {0, TUnitsPerSec}
OtherTypes == {"meta", "point", "end", "ping"}
Msgs ==
  {Msg("unparseable", FALSE, 0, 0), Msg("null", FALSE, 0, 0), Msg("pong", FALSE, 0, 0)}
    \cup {Msg("pong", TRUE, x, 0) : x \in PongTs}
    \cup {Msg("telemetry", FALSE, 0, tt) : tt \in TelemetryTs}
    \cup {Msg(ty, FALSE, 0, 0) : ty \in OtherTypes}

\* latency = Date.now() - message.timestamp; an absent timestamp gives NaN.
PongLatency(m, now) == IF m.hasTs THEN Num(now - m.ts) ELSE NaN

\* The shared tail of ws.onmessage and generateMockData: push the point,
\* clear the armed timeout, arm a new one BATCH_INTERVAL from now.
EnqueuePoint(p) ==
  /\ Len(pendingData) < MaxPending
  /\ nextN <= MaxAppends
  /\ pendingData' = Append(pendingData, p)
  /\ pendingAge' = IF pendingData = <<>> THEN 0 ELSE pendingAge
  /\ batchTimer' = BATCH_INTERVAL
  /\ nextN' = nextN + 1

\* ws.onmessage of socket s, delivered at wall-clock time `now`.
WsMessage(s, m, now) ==
  /\ s \in 1..Len(socks)
  /\ socks[s].st = "open"
  /\ CASE m.type = "pong" ->
            /\ latency' = PongLatency(m, now)
            /\ UNCHANGED <<pendingData, pendingAge, batchTimer, nextN>>
       [] m.type = "telemetry" /\ isPlaying ->
            /\ EnqueuePoint([t |-> m.t, n |-> nextN])
            /\ UNCHANGED latency
       [] OTHER ->
            UNCHANGED <<latency, pendingData, pendingAge, batchTimer, nextN>>
  /\ UNCHANGED <<phase, MOCK_DATA_ENABLED, connected, isPlaying, isMockMode,
                 rMockMode, socks, wsRef, reconnectTimers, reconnectRef,
                 heartbeats, heartbeatRef, pingSent, attempts>>
  /\ UNCHANGED <<playing, hz, data, timerRef, indexRef, rPlaying, rHz, timers>>
  /\ UNCHANGED mockTime
  /\ UNCHANGED viewVars
  /\ UNCHANGED dsVars

\* deltaT = (MOCK_DATA_INTERVAL / 1000) * rate, rate = 1, in time units.
MockDeltaT == (MOCK_DATA_INTERVAL * TUnitsPerSec) \div 1000

\* generateMockData(), called by its interval while the page is mounted.
GenerateMockData ==
  /\ phase = "mounted"
  /\ isPlaying
  /\ mockTime' = mockTime + MockDeltaT
  /\ EnqueuePoint([t |-> mockTime + MockDeltaT, n |-> nextN])
  /\ UNCHANGED <<playing, hz, data, timerRef, indexRef, rPlaying, rHz, timers>>
  /\ UNCHANGED connVars
  /\ UNCHANGED viewVars
  /\ UNCHANGED dsVars

\* The batch timeout fires: move all of pendingData into the Buffer, keep
\* the last MAX_BUFFER_SIZE.  The callback calls setData, which the page
\* does not take from useTelemetry; it is read as the setter of the hook's
\* `data` (useTelemetry.ts:14), the only Buffer there is.
BatchFlush ==
  /\ batchTimer = 0
  /\ batchTimer' = NoTimer
  /\ IF Len(pendingData) > 0
       THEN /\ data' = LastN(data \o pendingData, MAX_BUFFER_SIZE)
            /\ pendingData' = <<>>
            /\ pendingAge' = 0
       ELSE UNCHANGED <<data, pendingData, pendingAge>>
  /\ UNCHANGED <<playing, hz, timerRef, indexRef, rPlaying, rHz, timers, nextN>>
  /\ UNCHANGED connVars
  /\ UNCHANGED mockTime
  /\ UNCHANGED viewVars
  /\ UNCHANGED dsVars

\* TimeStep ms pass; the armed batch timeout cannot be passed over.
Advance ==
  /\ batchTimer >= TimeStep
  /\ batchTimer' = batchTimer - TimeStep
  /\ pendingAge' = Min(pendingAge + TimeStep, MaxAge)
  /\ UNCHANGED <<pendingData, mockTime>>
  /\ UNCHANGED hookVars
  /\ UNCHANGED connVars
  /\ UNCHANGED viewVars
  /\ UNCHANGED dsVars

\* ---- specifications ----

\* Rationals n/d in lowest terms (d > 0): the viewport's numbers.
Rat(n, d) == [n |-> n, d |-> d]
R0 == Rat(0, 1)

NoDomain == [set |-> FALSE, xMin |-> R0, xMax |-> R0]
NoDrag == [set |-> FALSE, x |-> R0, domain |-> NoDomain]

\* The hook, the connection manager and the batching stage after construction.
InitPage(ip) ==
  /\ playing = FALSE /\ hz = initialHz /\ data = <<>> /\ timerRef = 0
  /\ indexRef = 0 /\ rPlaying = FALSE /\ rHz = initialHz /\ timers = {}
  /\ nextN = 1
  /\ phase = "init"
  /\ MOCK_DATA_ENABLED \in BOOLEAN
  /\ connected = FALSE /\ latency = Num(0) /\ isPlaying = ip
  /\ isMockMode = FALSE /\ rMockMode = FALSE
  /\ socks = <<>> /\ wsRef = 0
  /\ reconnectTimers = {} /\ reconnectRef = 0
  /\ heartbeats = {} /\ heartbeatRef = 0 /\ pingSent = FALSE
  /\ attempts = 0
  /\ pendingData = <<>> /\ batchTimer = NoTimer /\ pendingAge = 0 /\ mockTime = 0

\* The viewport after construction: no Domain, follow-tail on, no drag.
InitView ==
  /\ chartDomain = NoDomain /\ followTail = TRUE
  /\ isDragging = FALSE /\ dragStart = NoDrag
  /\ effDataLen = 0 /\ nView = 0

\* No downsampling call has been made.
AllSeries == [speed |-> TRUE, current |-> TRUE, temp |-> TRUE]
InitKpiIdle ==
  series = AllSeries /\ kpiInput = <<>> /\ kpiOutput = <<>> /\ kpiFn = "none"

InitDsIdle ==
  /\ dsInput = <<>> /\ dsBudget = 0 /\ dsOutput = <<>> /\ dsFn = "none"
  /\ InitKpiIdle

InitWith(ip) == InitPage(ip) /\ InitView /\ InitDsIdle

\* The page as assembled: isPlaying is useState(false) and is never set, so
\* no sample reaches pendingData and no batch timeout is armed; the hook's
\* exported operations are called in any order while the page is mounted.
\* MOCK_DATA_ENABLED is true in the source; both values of the flag are
\* explored, as the fallback-disabled configuration is part of the design.
Init == InitWith(FALSE)

Next ==
  \/ Mount
  \/ Render
  \/ Unmount
  \/ Play
  \/ Pause
  \/ Clear
  \/ \E h \in HzChoices : SetHz(h)
  \/ \E tm \in timers : HookTick(tm)
  \/ \E s \in 1..MaxSockets : SockOpen(s)
  \/ \E s \in 1..MaxSockets : SockClose(s)
  \/ \E s \in 1..MaxSockets : HeartbeatFire(s)
  \/ \E s \in 1..MaxSockets : ReconnectFire(s)
  \/ \E s \in 1..MaxSockets, m \in Msgs, now \in NowChoices : WsMessage(s, m, now)

Spec == Init /\ [][Next]_vars

\* The connection manager alone.  The hook's actions leave every variable
\* it reads or writes unchanged, and Render's effect re-run depends only on
\* isMockMode, so this is Spec projected on the connection variables.
NextConn ==
  \/ Mount
  \/ Render
  \/ Unmount
  \/ \E s \in 1..MaxSockets : SockOpen(s)
  \/ \E s \in 1..MaxSockets : SockClose(s)
  \/ \E s \in 1..MaxSockets : HeartbeatFire(s)
  \/ \E s \in 1..MaxSockets : ReconnectFire(s)
  \/ \E s \in 1..MaxSockets, m \in Msgs, now \in NowChoices : WsMessage(s, m, now)

SpecConn == Init /\ [][NextConn]_vars

\* The connection manager next to the hook's generator and clear(): what
\* clear() does to the Buffer while the connection's state varies.
NextClear ==
  \/ Mount
  \/ Render
  \/ \E s \in 1..MaxSockets : SockOpen(s)
  \/ \E s \in 1..MaxSockets : SockClose(s)
  \/ \E s \in 1..MaxSockets : HeartbeatFire(s)
  \/ \E s \in 1..MaxSockets, m \in Msgs, now \in NowChoices : WsMessage(s, m, now)
  \/ Play
  \/ \E tm \in timers : HookTick(tm)
  \/ Clear

SpecClear == Init /\ [][NextClear]_vars

\* The ingestion stage taken as a unit: the playback flag that the message
\* handler and generateMockData read is an input, the generator callback is
\* invoked by its caller, and time passes for the batch timeout.  The unit
\* is the writers of the Buffer and of pendingData, one socket's open and
\* message callbacks, and mount/unmount.
InitBatch == \E ip \in BOOLEAN : InitWith(ip)

NextBatch ==
  \/ Mount
  \/ Unmount
  \/ Play
  \/ Pause
  \/ Clear
  \/ \E tm \in timers : HookTick(tm)
  \/ \E s \in 1..MaxSockets : SockOpen(s)
  \/ \E s \in 1..MaxSockets, m \in Msgs, now \in NowChoices : WsMessage(s, m, now)
  \/ GenerateMockData
  \/ BatchFlush
  \/ Advance

SpecBatch == InitBatch /\ [][NextBatch]_vars

\* ---- downsampling (src/unnamed/part_000, lines 69-166) ----
\* Points are [t, speed, current, temp] with integer fields; areas and the
\* min-max values are exact.  Arrays are 1-based here, the source's index j
\* is element j + 1.

Abs(x) == IF x < 0 THEN 0 - x ELSE x

\* The <<k, n, threshold>> with n <= 20 for which the double product
\* k * bucketSize is rounded below the integer it stands for:
\* 11 * (15 / 11) and 13 * (15 / 13) are 14.999999999999998.
FloorRoundedDown == {<<11, 17, 13>>, <<13, 17, 15>>}

\* Math.floor(k * bucketSize) for bucketSize = (n - 2) / (threshold - 2),
\* in double arithmetic, for n <= 20.
FloorBucket(k, n, threshold) ==
  ((k * (n - 2)) \div (threshold - 2))
    - (IF <<k, n, threshold>> \in FloorRoundedDown THEN 1 ELSE 0)

\* The bounds of bucket bucketIndex and of the bucket after it, as source
\* indices [start, end).
BucketStart(bucketIndex, n, threshold) == FloorBucket(bucketIndex, n, threshold) + 1
BucketEnd(bucketIndex, n, threshold) == FloorBucket(bucketIndex + 1, n, threshold) + 1
NextBucketStart(bucketIndex, n, threshold) == FloorBucket(bucketIndex + 1, n, threshold) + 1
NextBucketEnd(bucketIndex, n, threshold) ==
  Min(FloorBucket(bucketIndex + 2, n, threshold) + 1, n - 1)

\* Sum of field f over the source indices a .. b - 1.
RECURSIVE SumField(_, _, _, _)
SumField(d, f, a, b) ==
  IF a >= b THEN 0 ELSE d[a + 1][f] + SumField(d, f, a + 1, b)

\* The triangle area of prevPoint, p and the next bucket's average point,
\* times 2 * len for the next bucket's sums sx, sy over len points (len = 1
\* with sx = sy = 0 when the next bucket is empty and the averages stay 0).
\* The positive factor leaves every comparison of two areas as it is.
Area(prevPoint, p, sx, sy, len) ==
  Abs((prevPoint.t * len - sx) * (p.speed - prevPoint.speed)
        - (prevPoint.t - p.t) * (sy - prevPoint.speed * len))

\* The inner loop over the bucket: the first index of the largest area.
RECURSIVE MaxAreaIndex(_, _, _, _, _, _, _, _, _)
MaxAreaIndex(d, prevPoint, sx, sy, len, j, bucketEnd, maxArea, maxAreaIndex) ==
  IF j >= bucketEnd
    THEN maxAreaIndex
    ELSE LET area == Area(prevPoint, d[j + 1], sx, sy, len) IN
           IF area > maxArea
             THEN MaxAreaIndex(d, prevPoint, sx, sy, len, j + 1, bucketEnd, area, j)
             ELSE MaxAreaIndex(d, prevPoint, sx, sy, len, j + 1, bucketEnd, maxArea, maxAreaIndex)

PushLast_Omitted(sampled, d) == sampled

\* sampled.push(data[data.length - 1]) after the bucket loop.
PushLast(sampled, d) == Append(sampled, d[Len(d)])

\* for (let i = 1; i < threshold - 1; i++) { ... }; sampled.push(last)
RECURSIVE LTTBLoop(_, _, _, _)
LTTBLoop(d, threshold, i, sampled) ==
  IF i >= threshold - 1
    THEN PushLast(sampled, d)
    ELSE LET n == Len(d)
             bucketIndex == i - 1
             bucketStart == BucketStart(bucketIndex, n, threshold)
             bucketEnd == BucketEnd(bucketIndex, n, threshold)
             nextBucketStart == NextBucketStart(bucketIndex, n, threshold)
             nextBucketEnd == NextBucketEnd(bucketIndex, n, threshold)
             nextBucketLength ==
               IF nextBucketEnd > nextBucketStart THEN nextBucketEnd - nextBucketStart ELSE 0
             sx == SumField(d, "t", nextBucketStart, nextBucketEnd)
             sy == SumField(d, "speed", nextBucketStart, nextBucketEnd)
             len == IF nextBucketLength > 0 THEN nextBucketLength ELSE 1
             prevPoint == sampled[Len(sampled)]
             pick == MaxAreaIndex(d, prevPoint, sx, sy, len,
                                  bucketStart, bucketEnd, 0 - 1, bucketStart)
         IN LTTBLoop(d, threshold, i + 1, Append(sampled, d[pick + 1]))

LTTBTooSmall_Strict(threshold) == threshold < 2

\* `threshold <= 2` of the guard at the head of downsampleLTTB.
LTTBTooSmall(threshold) == threshold <= 2

downsampleLTTB(d, threshold) ==
  IF Len(d) <= threshold \/ LTTBTooSmall(threshold)
    THEN d
    ELSE LTTBLoop(d, threshold, 1, <<d[1]>>)

CeilDiv(a, b) == (a + b - 1) \div b

MinMaxBucketSize_Floor(n, targetPoints) == n \div targetPoints

\* bucketSize = Math.ceil(data.length / targetPoints)
MinMaxBucketSize(n, targetPoints) == CeilDiv(n, targetPoints)

\* The value min-max compares: speed + current + temp.
PointValue(p) == p.speed + p.current + p.temp

\* The loop over one bucket: the first point of the least and of the
\* greatest value.
RECURSIVE BucketMinMax(_, _, _, _)
BucketMinMax(bucket, k, minPoint, maxPoint) ==
  IF k > Len(bucket)
    THEN [minPoint |-> minPoint, maxPoint |-> maxPoint]
    ELSE BucketMinMax(bucket, k + 1,
           IF PointValue(bucket[k]) < PointValue(minPoint) THEN bucket[k] ELSE minPoint,
           IF PointValue(bucket[k]) > PointValue(maxPoint) THEN bucket[k] ELSE maxPoint)

\* for (let i = 0; i < data.length; i += bucketSize) { ... }
RECURSIVE MinMaxLoop(_, _, _, _)
MinMaxLoop(d, bucketSize, i, downsampled) ==
  IF i >= Len(d)
    THEN downsampled
    ELSE LET bucket == SubSeq(d, i + 1, Min(i + bucketSize, Len(d))) IN
           IF Len(bucket) = 1
             THEN MinMaxLoop(d, bucketSize, i + bucketSize, Append(downsampled, bucket[1]))
             ELSE LET mm == BucketMinMax(bucket, 1, bucket[1], bucket[1]) IN
                    MinMaxLoop(d, bucketSize, i + bucketSize,
                      downsampled \o
                        (IF mm.minPoint.t < mm.maxPoint.t
                           THEN <<mm.minPoint, mm.maxPoint>>
                           ELSE <<mm.maxPoint, mm.minPoint>>))

downsampleMinMax(d, targetPoints) ==
  IF Len(d) <= targetPoints
    THEN d
    ELSE MinMaxLoop(d, MinMaxBucketSize(Len(d), targetPoints), 0, <<>>)

\* Inputs of the downsampling calls: every point list of up to MaxLen points
\* at times 0, 1, 2, ... with speeds in 0..MaxVal, every budget 1..MaxLen,
\* a ten-point list with budget 5, and a 17-point list with budget 13.
MaxLen == 5
MaxVal == 2

DsPoint(i, v) == [t |-> i - 1, speed |-> v, current |-> 0, temp |-> 0]
DsInputs ==
  UNION {{[i \in 1..n |-> DsPoint(i, f[i])] : f \in [1..n -> 0..MaxVal]} : n \in 0..MaxLen}
DsExample == [i \in 1..10 |-> DsPoint(i, (i * i) % 7)]
DsExample17 == [i \in 1..17 |-> DsPoint(i, (i * i) % 7)]
DsCalls == (DsInputs \X (1..MaxLen)) \cup {<<DsExample, 5>>, <<DsExample17, 13>>}

CallLTTB ==
  /\ dsFn # "lttb"
  /\ dsFn' = "lttb"
  /\ dsOutput' = downsampleLTTB(dsInput, dsBudget)
  /\ UNCHANGED <<dsInput, dsBudget, kpiVars>>
  /\ UNCHANGED <<hookVars, connVars, batchVars, viewVars>>

CallMinMax ==
  /\ dsFn # "minmax"
  /\ dsFn' = "minmax"
  /\ dsOutput' = downsampleMinMax(dsInput, dsBudget)
  /\ UNCHANGED <<dsInput, dsBudget, kpiVars>>
  /\ UNCHANGED <<hookVars, connVars, batchVars, viewVars>>

InitDown ==
  /\ InitPage(FALSE) /\ MOCK_DATA_ENABLED
  /\ InitView
  /\ \E c \in DsCalls : dsInput = c[1] /\ dsBudget = c[2]
  /\ dsOutput = <<>> /\ dsFn = "none"
  /\ InitKpiIdle

NextDown == CallLTTB \/ CallMinMax

SpecDown == InitDown /\ [][NextDown]_vars

\* ---- chart viewport (src/unnamed/part_000, lines 452-657 and 748-762) ----
\* The Domain's bounds are numbers of seconds, kept as exact rationals.
\* Pointer positions are fractions of the chart's width (rect.left = 0).

RECURSIVE GCD(_, _)
GCD(a, b) == IF b = 0 THEN a ELSE GCD(b, a % b)

RNorm(n, d) ==
  LET g == GCD(Abs(n), d) IN Rat(n \div g, d \div g)

RInt(i) == Rat(i, 1)
RAdd(a, b) == RNorm(a.n * b.d + b.n * a.d, a.d * b.d)
RSub(a, b) == RNorm(a.n * b.d - b.n * a.d, a.d * b.d)
RMul(a, b) == RNorm(a.n * b.n, a.d * b.d)
\* a / b for b # 0
RDiv(a, b) ==
  IF b.n > 0 THEN RNorm(a.n * b.d, a.d * b.n)
             ELSE RNorm(0 - a.n * b.d, 0 - a.d * b.n)
RLt(a, b) == a.n * b.d < b.n * a.d
RMax(a, b) == IF RLt(a, b) THEN b ELSE a
RMin(a, b) == IF RLt(b, a) THEN b ELSE a

MIN_ZOOM_SPAN == 2
ZOOM_SENSITIVITY == Rat(1, 10)
\* MAX_ZOOM_SPAN = totalDataSpan * 1.2
MaxSpanFactor == Rat(6, 5)
\* The trailing window of Math.max(0, maxT - 30)
TailWindow == 30

\* A sample's t in seconds.
Seconds(t) == RNorm(t, TUnitsPerSec)

\* Math.min / Math.max of data.map(d => d.t), for non-empty data.
MinT(d) ==
  Seconds(CHOOSE t \in {d[i].t : i \in 1..Len(d)} : \A i \in 1..Len(d) : t <= d[i].t)
MaxT(d) ==
  Seconds(CHOOSE t \in {d[i].t : i \in 1..Len(d)} : \A i \in 1..Len(d) : t >= d[i].t)

Domain(lo, hi) == [set |-> TRUE, xMin |-> lo, xMax |-> hi]
Span(dom) == RSub(dom.xMax, dom.xMin)

\* The effect with dependency [data.length]: it runs after the render in
\* which data.length differs from the one of its last run, and sets the
\* Domain when the Buffer is not empty.
DomainEffect ==
  /\ phase = "mounted"
  /\ effDataLen # Len(data)
  /\ effDataLen' = Len(data)
  /\ chartDomain' =
       IF Len(data) > 0
         THEN Domain(IF followTail
                       THEN RMax(R0, RSub(MaxT(data), RInt(TailWindow)))
                       ELSE MinT(data),
                     MaxT(data))
         ELSE chartDomain
  /\ UNCHANGED <<followTail, isDragging, dragStart, nView>>
  /\ UNCHANGED <<hookVars, connVars, batchVars, dsVars>>

\* A UI event is handled by the handlers of a completed render: the state
\* is committed to the closures and the effects have run.
Rendered == phase = "mounted" /\ rPlaying = playing /\ rHz = hz /\ effDataLen = Len(data)

ZoomXMin_LeftEdge(mouseT, xMin, newSpan, currentSpan) ==
  RSub(mouseT, RSub(mouseT, xMin))

\* newXMin = mouseT - (mouseT - chartDomain.xMin) * (newSpan / currentSpan)
ZoomXMin(mouseT, xMin, newSpan, currentSpan) ==
  RSub(mouseT, RMul(RSub(mouseT, xMin), RDiv(newSpan, currentSpan)))

ZoomSpan_NoMinimum(dom, d, deltaY) ==
  LET zoomFactor == IF deltaY > 0 THEN RAdd(RInt(1), ZOOM_SENSITIVITY)
                                  ELSE RSub(RInt(1), ZOOM_SENSITIVITY)
      maxZoomSpan == RMul(RSub(MaxT(d), MinT(d)), MaxSpanFactor)
  IN RMin(maxZoomSpan, RMul(Span(dom), zoomFactor))

\* newSpan of handleWheel: currentSpan * zoomFactor held between
\* MIN_ZOOM_SPAN and MAX_ZOOM_SPAN, the lower limit applied last.
ZoomSpan(dom, d, deltaY) ==
  LET zoomFactor == IF deltaY > 0 THEN RAdd(RInt(1), ZOOM_SENSITIVITY)
                                  ELSE RSub(RInt(1), ZOOM_SENSITIVITY)
      maxZoomSpan == RMul(RSub(MaxT(d), MinT(d)), MaxSpanFactor)
  IN RMax(RInt(MIN_ZOOM_SPAN), RMin(maxZoomSpan, RMul(Span(dom), zoomFactor)))

\* newXMin and newXMax of handleWheel before the clamps, for currentSpan # 0.
ZoomRaw(dom, d, mouseX, deltaY) ==
  LET currentSpan == Span(dom)
      newSpan == ZoomSpan(dom, d, deltaY)
      mouseT == RAdd(dom.xMin, RMul(mouseX, currentSpan))
      newXMin == ZoomXMin(mouseT, dom.xMin, newSpan, currentSpan)
  IN [xMin |-> newXMin, xMax |-> RAdd(newXMin, newSpan)]

\* The three clamps of handleWheel on the raw window r of span newSpan.
ZoomClamp(r, newSpan, minT, maxT) ==
  LET a == IF RLt(r.xMin, minT)
             THEN [xMin |-> minT, xMax |-> RAdd(minT, newSpan)]
             ELSE r
      b == IF RLt(maxT, a.xMax)
             THEN [xMin |-> RSub(maxT, newSpan), xMax |-> maxT]
             ELSE a
      center == RDiv(RAdd(minT, maxT), RInt(2))
      half == RDiv(newSpan, RInt(2))
  IN IF RLt(b.xMin, minT) \/ RLt(maxT, b.xMax)
       THEN IF RLt(RSub(center, half), minT)
              THEN [xMin |-> minT, xMax |-> maxT]
              ELSE [xMin |-> RSub(center, half), xMax |-> RAdd(center, half)]
       ELSE b

\* The window handleWheel computes, and whether it passes the safety check.
\* With currentSpan = 0 the quotient newSpan / currentSpan is Infinity and
\* (mouseT - xMin) is 0, so newXMin and newXMax are NaN: every comparison
\* of the clamps is false and isNaN rejects the request.
ZoomResult(dom, d, mouseX, deltaY) ==
  IF Span(dom) = R0
    THEN [ok |-> FALSE, nan |-> TRUE, xMin |-> R0, xMax |-> R0]
    ELSE LET c == ZoomClamp(ZoomRaw(dom, d, mouseX, deltaY),
                            ZoomSpan(dom, d, deltaY), MinT(d), MaxT(d))
         IN [ok |-> RLt(c.xMin, c.xMax), nan |-> FALSE, xMin |-> c.xMin, xMax |-> c.xMax]

\* handleWheel with the pointer at fraction mouseX and wheel delta deltaY.
\* The early returns (playing, no Domain, empty Buffer) change nothing.
HandleWheel(mouseX, deltaY) ==
  /\ Rendered
  /\ ~rPlaying
  /\ chartDomain.set /\ Len(data) > 0
  /\ nView < MaxViewOps
  /\ nView' = nView + 1
  /\ followTail' = FALSE
  /\ LET z == ZoomResult(chartDomain, data, mouseX, deltaY) IN
       chartDomain' = IF z.ok THEN Domain(z.xMin, z.xMax) ELSE chartDomain
  /\ UNCHANGED <<isDragging, dragStart, effDataLen>>
  /\ UNCHANGED <<hookVars, connVars, batchVars, dsVars>>

\* handleMouseDown with the pointer at x.
HandleMouseDown(x) ==
  /\ Rendered
  /\ chartDomain.set
  /\ isDragging' = TRUE
  /\ followTail' = FALSE
  /\ dragStart' = [set |-> TRUE, x |-> x, domain |-> chartDomain]
  /\ UNCHANGED <<chartDomain, effDataLen, nView>>
  /\ UNCHANGED <<hookVars, connVars, batchVars, dsVars>>

PanClampMax_Shrinking(w, maxTime) == [xMin |-> w.xMin, xMax |-> maxTime]

\* if (clampedXMax > maxTime): move both bounds back by the overflow.
PanClampMax(w, maxTime) ==
  [xMin |-> RSub(w.xMin, RSub(w.xMax, maxTime)), xMax |-> maxTime]

\* The window handleMouseMove sets for the snapshot s and the pointer at x.
PanResult(s, x, d, h) ==
  LET deltaX == RSub(x, s.x)
      deltaT == RMul(deltaX, Span(s.domain))
      newXMin == RSub(s.domain.xMin, deltaT)
      newXMax == RSub(s.domain.xMax, deltaT)
      minTime == R0
      maxTime == RNorm(Len(d) - 1, h)
      a == IF RLt(newXMin, minTime)
             THEN [xMin |-> minTime, xMax |-> RAdd(newXMax, RSub(minTime, newXMin))]
             ELSE [xMin |-> newXMin, xMax |-> newXMax]
  IN IF RLt(maxTime, a.xMax) THEN PanClampMax(a, maxTime) ELSE a

\* handleMouseMove with the pointer at x, while a drag is in progress.
HandleMouseMove(x) ==
  /\ Rendered
  /\ isDragging /\ dragStart.set
  /\ nView < MaxViewOps
  /\ nView' = nView + 1
  /\ LET w == PanResult(dragStart, x, data, hz) IN
       chartDomain' = Domain(w.xMin, w.xMax)
  /\ UNCHANGED <<followTail, isDragging, dragStart, effDataLen>>
  /\ UNCHANGED <<hookVars, connVars, batchVars, dsVars>>

\* handleMouseUp (also bound to onMouseLeave)
HandleMouseUp ==
  /\ Rendered
  /\ isDragging' = FALSE
  /\ dragStart' = NoDrag
  /\ UNCHANGED <<chartDomain, followTail, effDataLen, nView>>
  /\ UNCHANGED <<hookVars, connVars, batchVars, dsVars>>

\* handleDoubleClick: reset to the full extent, follow-tail on.
HandleDoubleClick ==
  /\ Rendered
  /\ Len(data) > 0
  /\ chartDomain' = Domain(MinT(data), MaxT(data))
  /\ followTail' = TRUE
  /\ UNCHANGED <<isDragging, dragStart, effDataLen, nView>>
  /\ UNCHANGED <<hookVars, connVars, batchVars, dsVars>>

\* toggleFollowTail
ToggleFollowTail ==
  /\ Rendered
  /\ followTail' = ~followTail
  /\ chartDomain' =
       IF ~followTail /\ Len(data) > 0
         THEN Domain(RMax(MinT(data), RSub(MaxT(data), RInt(TailWindow))), MaxT(data))
         ELSE chartDomain
  /\ UNCHANGED <<isDragging, dragStart, effDataLen, nView>>
  /\ UNCHANGED <<hookVars, connVars, batchVars, dsVars>>

\* togglePlayback: pause() while playing; otherwise clear the Buffer and
\* the Domain if there is data, then play() and turn follow-tail on. The
\* render that commits the cleared Buffer comes before the first tick of the
\* new interval, and in it the effect sees data.length 0 and returns.
TogglePlayback ==
  /\ Rendered
  /\ IF rPlaying
       THEN /\ playing' = FALSE
            /\ IF timerRef # 0
                 THEN /\ timers' = {t \in timers : t.id # timerRef}
                      /\ timerRef' = 0
                 ELSE UNCHANGED <<timers, timerRef>>
            /\ UNCHANGED <<data, indexRef, chartDomain, followTail>>
       ELSE /\ FreeTimerIds # {}
            /\ LET id == CHOOSE i \in FreeTimerIds : \A j \in FreeTimerIds : i <= j IN
                 /\ timers' = timers \cup {[id |-> id, hz |-> rHz]}
                 /\ timerRef' = id
            /\ playing' = TRUE
            /\ followTail' = TRUE
            /\ IF Len(data) > 0
                 THEN data' = <<>> /\ indexRef' = 0 /\ chartDomain' = NoDomain
                 ELSE UNCHANGED <<data, indexRef, chartDomain>>
  /\ effDataLen' = IF ~rPlaying /\ Len(data) > 0 THEN 0 ELSE effDataLen
  /\ UNCHANGED <<hz, rPlaying, rHz, nextN>>
  /\ UNCHANGED <<isDragging, dragStart, nView>>
  /\ UNCHANGED <<connVars, batchVars, dsVars>>

\* The viewport on a paused page: the Buffer holds the first k generator
\* samples (play, k ticks at initialHz, pause; k below the capacity), the
\* socket of the mount is connecting, and the Domain is the one the effect
\* set after the last arrival.
GenBuffer(k) == [i \in 1..k |-> [t |-> TickTime(i - 1, initialHz), n |-> i]]

PointerXs == {R0, Rat(1, 2), Rat(1, 1)}
WheelDeltas == {0 - 1, 1}

InitViewport ==
  \E k \in 0..MaxViewLen :
    /\ playing = FALSE /\ hz = initialHz /\ data = GenBuffer(k) /\ timerRef = 0
    /\ indexRef = k /\ rPlaying = FALSE /\ rHz = initialHz /\ timers = {}
    /\ nextN = k + 1
    /\ phase = "mounted"
    /\ MOCK_DATA_ENABLED = TRUE
    /\ connected = FALSE /\ latency = Num(0) /\ isPlaying = FALSE
    /\ isMockMode = FALSE /\ rMockMode = FALSE
    /\ socks = <<NewSock(FALSE)>> /\ wsRef = 1
    /\ reconnectTimers = {} /\ reconnectRef = 0
    /\ heartbeats = {} /\ heartbeatRef = 0 /\ pingSent = FALSE
    /\ attempts = 0
    /\ pendingData = <<>> /\ batchTimer = NoTimer /\ pendingAge = 0 /\ mockTime = 0
    /\ chartDomain =
         IF k > 0
           THEN Domain(RMax(R0, RSub(MaxT(GenBuffer(k)), RInt(TailWindow))),
                       MaxT(GenBuffer(k)))
           ELSE NoDomain
    /\ followTail = TRUE /\ isDragging = FALSE /\ dragStart = NoDrag
    /\ effDataLen = k /\ nView = 0
    /\ InitDsIdle

NextViewport ==
  \/ \E mouseX \in PointerXs, deltaY \in WheelDeltas : HandleWheel(mouseX, deltaY)
  \/ \E x \in PointerXs : HandleMouseDown(x)
  \/ \E x \in PointerXs : HandleMouseMove(x)
  \/ HandleMouseUp
  \/ HandleDoubleClick
  \/ ToggleFollowTail

SpecViewport == InitViewport /\ [][NextViewport]_vars

\* ---- the second dashboard's viewport (src/unnamed/part_001) ----
\* Its handleWheel has no upper limit on the span, no clamp to the Buffer
\* and no validity check; its effect initializes the Domain only while it
\* is unset, so on a paused page the Domain is the one of the first sample
\* until a reset.

\* NaN as a bound of the Domain.
RNaN == [n |-> 0, d |-> 0]

\* zoomFactor = e.deltaY > 0 ? 1 + ZOOM_SENSITIVITY : 1 - ZOOM_SENSITIVITY
ZoomFactor1(deltaY) ==
  IF deltaY > 0 THEN RAdd(RInt(1), ZOOM_SENSITIVITY) ELSE RSub(RInt(1), ZOOM_SENSITIVITY)

\* The window part_001's handleWheel sets.  With currentSpan = 0 the
\* quotient newSpan / currentSpan is Infinity and (mouseT - xMin) is 0, so
\* both bounds are NaN, and a NaN Domain stays NaN.
ZoomResult1(dom, mouseX, deltaY) ==
  IF dom.xMin = RNaN \/ dom.xMax = RNaN \/ Span(dom) = R0
    THEN [xMin |-> RNaN, xMax |-> RNaN]
    ELSE LET currentSpan == Span(dom)
             newSpan == RMax(RInt(MIN_ZOOM_SPAN), RMul(currentSpan, ZoomFactor1(deltaY)))
             mouseT == RAdd(dom.xMin, RMul(mouseX, currentSpan))
             newXMin == RSub(mouseT, RMul(RSub(mouseT, dom.xMin), RDiv(newSpan, currentSpan)))
         IN [xMin |-> newXMin, xMax |-> RAdd(newXMin, newSpan)]

\* part_001's handleWheel with the pointer at fraction mouseX.
HandleWheel1(mouseX, deltaY) ==
  /\ Rendered
  /\ chartDomain.set /\ Len(data) > 0
  /\ nView < MaxViewOps
  /\ nView' = nView + 1
  /\ followTail' = FALSE
  /\ LET z == ZoomResult1(chartDomain, mouseX, deltaY) IN
       chartDomain' = Domain(z.xMin, z.xMax)
  /\ UNCHANGED <<isDragging, dragStart, effDataLen>>
  /\ UNCHANGED <<hookVars, connVars, batchVars, dsVars>>

\* The second dashboard paused with the first k generator samples in the
\* Buffer: the Domain was set when the first sample arrived.
InitViewport1 ==
  \E k \in 0..MaxViewLen :
    /\ playing = FALSE /\ hz = initialHz /\ data = GenBuffer(k) /\ timerRef = 0
    /\ indexRef = k /\ rPlaying = FALSE /\ rHz = initialHz /\ timers = {}
    /\ nextN = k + 1
    /\ phase = "mounted"
    /\ MOCK_DATA_ENABLED = TRUE
    /\ connected = FALSE /\ latency = Num(0) /\ isPlaying = FALSE
    /\ isMockMode = FALSE /\ rMockMode = FALSE
    /\ socks = <<NewSock(FALSE)>> /\ wsRef = 1
    /\ reconnectTimers = {} /\ reconnectRef = 0
    /\ heartbeats = {} /\ heartbeatRef = 0 /\ pingSent = FALSE
    /\ attempts = 0
    /\ pendingData = <<>> /\ batchTimer = NoTimer /\ pendingAge = 0 /\ mockTime = 0
    /\ chartDomain =
         IF k > 0
           THEN Domain(RMax(R0, RSub(MaxT(GenBuffer(1)), RInt(TailWindow))),
                       MaxT(GenBuffer(1)))
           ELSE NoDomain
    /\ followTail = TRUE /\ isDragging = FALSE /\ dragStart = NoDrag
    /\ effDataLen = k /\ nView = 0
    /\ InitDsIdle

\* handleDoubleClick is the same in both dashboards.
NextViewport1 ==
  \/ \E mouseX \in PointerXs, deltaY \in WheelDeltas : HandleWheel1(mouseX, deltaY)
  \/ HandleDoubleClick

SpecViewport1 == InitViewport1 /\ [][NextViewport1]_vars

\* The viewport on the live page: the generator runs and its samples reach
\* the Buffer through pushPoint while the pointer and wheel are used.
NextLive ==
  \/ Mount
  \/ Render
  \/ TogglePlayback
  \/ \E tm \in timers : HookTick(tm)
  \/ DomainEffect
  \/ \E mouseX \in PointerXs, deltaY \in WheelDeltas : HandleWheel(mouseX, deltaY)
  \/ \E x \in PointerXs : HandleMouseDown(x)
  \/ \E x \in PointerXs : HandleMouseMove(x)
  \/ HandleMouseUp
  \/ HandleDoubleClick
  \/ ToggleFollowTail

InitLive == Init /\ MOCK_DATA_ENABLED = TRUE

SpecLive == InitLive /\ [][NextLive]_vars

\* ---- KPI aggregation (src/unnamed/part_000, lines 203-252 and 764-799) ----
\* avg is kept as an exact rational; max and last are sample values.

ZeroMetrics == [avg |-> R0, max |-> 0, last |-> 0]
ZeroKpi == [speed |-> ZeroMetrics, current |-> ZeroMetrics, temp |-> ZeroMetrics]

\* let max = values[0]
CalcMaxInit_Zero(values) == 0
CalcMaxInit(values) == values[1]

\* The loop of calculateMetrics from index i (0-based) on, returning <<sum, max>>.
RECURSIVE CalcLoop(_, _, _, _)
CalcLoop(values, i, sum, max) ==
  IF i >= Len(values) THEN <<sum, max>>
  ELSE LET val == values[i + 1] IN
         CalcLoop(values, i + 1, sum + val, IF val > max THEN val ELSE max)

calculateMetrics(values) ==
  IF Len(values) = 0 THEN ZeroMetrics
  ELSE LET r == CalcLoop(values, 0, 0, CalcMaxInit(values)) IN
         [avg |-> RNorm(r[1], Len(values)), max |-> r[2], last |-> values[Len(values)]]

\* d.map((p) => p[f])
Channel(d, f) == [i \in 1..Len(d) |-> d[i][f]]

ChannelMetrics(d, s, f) ==
  IF s[f] THEN calculateMetrics(Channel(d, f)) ELSE ZeroMetrics

\* kpiData: over the whole Buffer; its filter keeps every point when some
\* channel is visible and none otherwise.
kpiData(d, s) ==
  IF Len(d) = 0 THEN ZeroKpi
  ELSE LET visibleData == IF s.speed \/ s.current \/ s.temp THEN d ELSE <<>> IN
         IF Len(visibleData) = 0 THEN ZeroKpi
         ELSE [f \in {"speed", "current", "temp"} |-> ChannelMetrics(visibleData, s, f)]

\* memoizedKpiData: over chartData, the samples within the Domain.
memoizedKpiData(d, s) ==
  IF Len(d) = 0 THEN ZeroKpi
  ELSE [f \in {"speed", "current", "temp"} |-> ChannelMetrics(d, s, f)]

MaxKpiLen == 2
MaxKpiVal == 1

\* Sample lists whose three channels differ: speed takes negative values too.
KpiPoint(i, v, w) == [t |-> i - 1, speed |-> v, current |-> w, temp |-> v + w + 1]
KpiPoints(i) == {KpiPoint(i, v, w) : v \in (0 - MaxKpiVal)..MaxKpiVal, w \in 0..1}
KpiInputs ==
  UNION {{d \in [1..n -> UNION {KpiPoints(i) : i \in 1..n}] :
            \A i \in 1..n : d[i] \in KpiPoints(i)} : n \in 0..MaxKpiLen}
SeriesFlags == [{"speed", "current", "temp"} -> BOOLEAN]

CallKpiData ==
  /\ kpiFn # "kpiData"
  /\ kpiFn' = "kpiData"
  /\ kpiOutput' = kpiData(kpiInput, series)
  /\ UNCHANGED <<series, kpiInput, dsInput, dsBudget, dsOutput, dsFn>>
  /\ UNCHANGED <<hookVars, connVars, batchVars, viewVars>>

CallMemoizedKpiData ==
  /\ kpiFn # "memoizedKpiData"
  /\ kpiFn' = "memoizedKpiData"
  /\ kpiOutput' = memoizedKpiData(kpiInput, series)
  /\ UNCHANGED <<series, kpiInput, dsInput, dsBudget, dsOutput, dsFn>>
  /\ UNCHANGED <<hookVars, connVars, batchVars, viewVars>>

\* toggleSeries: the memos are stale until they are computed again.
toggleSeries(key) ==
  /\ series' = [series EXCEPT ![key] = ~series[key]]
  /\ kpiFn' = "none"
  /\ kpiOutput' = <<>>
  /\ UNCHANGED <<kpiInput, dsInput, dsBudget, dsOutput, dsFn>>
  /\ UNCHANGED <<hookVars, connVars, batchVars, viewVars>>

InitKpi ==
  /\ InitPage(FALSE) /\ MOCK_DATA_ENABLED
  /\ InitView
  /\ dsInput = <<>> /\ dsBudget = 0 /\ dsOutput = <<>> /\ dsFn = "none"
  /\ series \in SeriesFlags /\ kpiInput \in KpiInputs
  /\ kpiOutput = <<>> /\ kpiFn = "none"

NextKpi ==
  \/ CallKpiData
  \/ CallMemoizedKpiData
  \/ \E key \in {"speed", "current", "temp"} : toggleSeries(key)

SpecKpi == InitKpi /\ [][NextKpi]_vars

\* ---- connection states as the flags show them ----

ConnectingSocket == \E s \in 1..Len(socks) : socks[s].st = "connecting"
LiveSocket == \E s \in 1..Len(socks) : socks[s].st \in {"connecting", "open"}

InConnected == connected
InDegraded == isMockMode
InConnecting ==
  ~connected /\ ~isMockMode /\ (ConnectingSocket \/ reconnectTimers # {})
InDisconnected ==
  ~connected /\ ~isMockMode /\ ~ConnectingSocket /\ reconnectTimers = {}

NoConnectionTimers ==
  reconnectTimers = {} /\ heartbeats = {} /\ batchTimer = NoTimer

\* ---- claims ----

\* C1: the Buffer never holds more than C = MAX_BUFFER_SIZE samples and is
\* exactly the most recent min(total, C) samples appended since the last
\* clear, in arrival order (total = indexRef, the appends since the clear).
C1_BufferIsRecentTail ==
  /\ Len(data) = Min(indexRef, MAX_BUFFER_SIZE)
  /\ \A i \in 1..Len(data) : data[i].n = nextN - Len(data) + i - 1

\* C2: the Buffer is in time order: consecutive samples a, b have a.t <= b.t.
C2_TimeOrdered ==
  \A i \in 1..(Len(data) - 1) : data[i].t <= data[i + 1].t

\* C3: the Buffer changes only in a flush step (or an explicit clear), however
\* many samples arrive in between, and a flush moves the whole PendingBatch.
C3_BufferChangesOnlyAtFlush ==
  [][/\ (data' # data) => (BatchFlush \/ Clear)
     /\ BatchFlush => pendingData' = <<>>]_vars

C5_Delays == <<1000, 2000, 4000>>

\* C5 as written: with fallback disabled, each of the failures at counter
\* 0, 1, 2 schedules a reconnect after 1000, 2000, 4000 ms.
C5_EveryFailureSchedules ==
  [][(~MOCK_DATA_ENABLED /\ attempts < MaxAttempts /\ attempts' = attempts + 1) =>
       \E s \in reconnectTimers' \ reconnectTimers :
         socks'[s].backoff = C5_Delays[attempts + 1]]_vars

\* C5 amended: with fallback disabled the failures at counter 0, 1, 2 compute
\* the delays 1000, 2000, 4000 ms; a reconnect is scheduled with the delay
\* only at counter 0 and 1, the failure at counter 2 exhausts the budget
\* and schedules nothing.
C5_BackoffSequence ==
  [][(~MOCK_DATA_ENABLED /\ attempts < MaxAttempts /\ attempts' = attempts + 1) =>
       \E s \in 1..Len(socks) :
         /\ socks[s].st # "closed" /\ socks'[s].st = "closed"
         /\ socks'[s].backoff = C5_Delays[attempts + 1]
         /\ reconnectTimers' \ reconnectTimers = (IF attempts < 2 THEN {s} ELSE {})]_vars

C5_Witness ==
  /\ ~MOCK_DATA_ENABLED /\ attempts = 3 /\ Len(socks) = 3
  /\ \A s \in 1..3 : socks[s].st = "closed" /\ socks[s].backoff = C5_Delays[s]

\* C6: when the retry counter has reached 3 the manager is Degraded with
\* fallback enabled and Disconnected with fallback disabled, and no
\* reconnect, heartbeat or batch timer is pending.
C6_ExhaustedIsQuiet ==
  attempts = 3 =>
    /\ IF MOCK_DATA_ENABLED THEN InDegraded ELSE InDisconnected
    /\ NoConnectionTimers

C6_Witness ==
  ~MOCK_DATA_ENABLED /\ attempts = 3 /\ InDisconnected /\ reconnectRef # 0

\* C7: exactly one of Disconnected, Connecting, Connected, Degraded holds;
\* the connected flag and the mock-mode flag are never both true.
C7_ExactlyOneState ==
  /\ ~(connected /\ isMockMode)
  /\ Cardinality({i \in 1..4 : <<InDisconnected, InConnecting, InConnected, InDegraded>>[i]}) = 1

C7_Witness ==
  isMockMode /\ \E s \in 1..Len(socks) : socks[s].st = "closed" /\ heartbeatRef = s

\* C8: after teardown no generator, reconnect, heartbeat or batch timer is
\* pending.
C8_NoTimerAfterTeardown ==
  phase = "unmounted" => (timers = {} /\ NoConnectionTimers)

\* C9: with fallback enabled, once Degraded the manager stays Degraded: no
\* step leads to a connecting or open socket, a pending reconnect or the
\* connected flag.
C9_DegradedIsSticky ==
  [][(MOCK_DATA_ENABLED /\ isMockMode) =>
       (isMockMode' /\ ~connected' /\ ~LiveSocket' /\ reconnectTimers' = {})]_vars

C9_Witness ==
  /\ MOCK_DATA_ENABLED /\ isMockMode /\ rMockMode
  /\ \E s \in 1..Len(socks) : socks[s].st = "closed"

\* Messages that are not well-formed wire messages.
MalformedMsgs ==
  {m \in Msgs : m.type \in {"unparseable", "null"} \/ (m.type = "pong" /\ ~m.hasTs)}

\* C10: a malformed or unparseable message leaves the connection state,
\* PendingBatch, the Buffer and the latency unchanged.
C10_MalformedDropped ==
  [][(\E s \in 1..MaxSockets, m \in MalformedMsgs, now \in NowChoices : WsMessage(s, m, now)) =>
       UNCHANGED <<connected, isMockMode, attempts, socks, pendingData, data, latency>>]_vars

\* A telemetry payload arrives on an open socket and is appended to
\* PendingBatch.
TelemetryAppended ==
  \E s \in 1..MaxSockets, m \in Msgs, now \in NowChoices :
    /\ m.type = "telemetry"
    /\ WsMessage(s, m, now)
    /\ pendingData' = Append(pendingData, [t |-> m.t, n |-> nextN])

\* C11: while Connected (an open socket, the connected flag set), an
\* arriving telemetry payload is appended to PendingBatch exactly when
\* playback is active, playback being the flag that the play/pause control
\* (togglePlayback: play() / pause()) switches.
C11_AppendedIffPlaying ==
  (connected /\ (\E s \in 1..Len(socks) : socks[s].st = "open")
     /\ Len(pendingData) < MaxPending /\ nextN <= MaxAppends) =>
    (playing <=> ENABLED TelemetryAppended)

\* ---- downsampling claims ----

\* C12: LTTB on an input of length n > budget > 2 returns exactly budget
\* points, the first being input[0] and the last input[n-1].
C12_LTTBExactBudget ==
  (dsFn = "lttb" /\ Len(dsInput) > dsBudget /\ dsBudget > 2) =>
    /\ Len(dsOutput) = dsBudget
    /\ dsOutput[1] = dsInput[1]
    /\ dsOutput[Len(dsOutput)] = dsInput[Len(dsInput)]

\* Ten points with budget 5 give five points.
C12_Witness ==
  dsFn = "lttb" /\ dsInput = DsExample /\ dsBudget = 5 /\ Len(dsOutput) = 5

\* C13: min-max on an input of length n > targetPoints returns an output
\* that includes the first and the last input element.
C13_MinMaxKeepsEnds ==
  (dsFn = "minmax" /\ Len(dsInput) > dsBudget) =>
    /\ \E k \in 1..Len(dsOutput) : dsOutput[k] = dsInput[1]
    /\ \E k \in 1..Len(dsOutput) : dsOutput[k] = dsInput[Len(dsInput)]

C15_MinMaxWithinBudget ==
  (dsFn = "minmax" /\ dsBudget >= 1) => Len(dsOutput) <= dsBudget

\* out[k..] can be matched to strictly increasing positions of inp from j on.
RECURSIVE IsSubseqFrom(_, _, _, _)
IsSubseqFrom(out, k, inp, j) ==
  IF k > Len(out) THEN TRUE
  ELSE IF j > Len(inp) THEN FALSE
  ELSE IF inp[j] = out[k] THEN IsSubseqFrom(out, k + 1, inp, j + 1)
  ELSE IsSubseqFrom(out, k, inp, j + 1)

\* C16: the output of LTTB and of min-max is a subsequence of the input,
\* at strictly increasing input indices: order is kept, only input points
\* are returned, and none is returned twice.
C16_OutputIsSubsequence ==
  dsFn \in {"lttb", "minmax"} => IsSubseqFrom(dsOutput, 1, dsInput, 1)

\* C17: LTTB returns its input unchanged when the input length is <= budget
\* or the budget is <= 2; min-max returns its input unchanged when the
\* input length is <= targetPoints.
C17_Identity ==
  /\ (dsFn = "lttb" /\ (Len(dsInput) <= dsBudget \/ dsBudget <= 2)) => dsOutput = dsInput
  /\ (dsFn = "minmax" /\ Len(dsInput) <= dsBudget) => dsOutput = dsInput

\* LTTB with budget 2 on a longer input.
C17_Witness ==
  dsFn = "lttb" /\ dsBudget = 2 /\ Len(dsInput) > 2 /\ dsOutput = dsInput

\* ---- viewport claims ----

\* The time under the pointer at fraction p of the Domain dom.
TimeAt(dom, p) == RAdd(dom.xMin, RMul(p, Span(dom)))

\* The zoom request (mouseX, deltaY) is accepted in the current state and
\* needs no clamp at a data edge.
AcceptedUnclamped(mouseX, deltaY) ==
  /\ ZoomResult(chartDomain, data, mouseX, deltaY).ok
  /\ LET r == ZoomRaw(chartDomain, data, mouseX, deltaY) IN
       ~RLt(r.xMin, MinT(data)) /\ ~RLt(MaxT(data), r.xMax)

C19_PanKeepsSpan ==
  [][\A x \in PointerXs :
       HandleMouseMove(x) => Span(chartDomain') = Span(dragStart.domain)]_vars

\* The Buffer holds the samples at 1/4 s and 1/2 s, so maxTime is 1/4; a
\* pan of the snapshot [0, 1/2] is moved back by the upper clamp (after the
\* lower clamp, for a drag to the right) to [-1/4, 1/4].
C19_Witness ==
  /\ isDragging /\ Len(data) = 2 /\ nView >= 1
  /\ dragStart.domain = Domain(R0, Rat(1, 2))
  /\ chartDomain = Domain(Rat(0 - 1, 4), Rat(1, 4))

\* C20: every Domain that a zoom or a pan sets has xMin < xMax: a request
\* whose window would be inverted, of zero span or not finite is rejected
\* and the Domain stays as it was.
C20_ZoomPanKeepValid ==
  [][((\E mouseX \in PointerXs, deltaY \in WheelDeltas : HandleWheel(mouseX, deltaY))
        \/ (\E x \in PointerXs : HandleMouseMove(x))) =>
       (chartDomain' # chartDomain => RLt(chartDomain'.xMin, chartDomain'.xMax))]_vars

\* C21: whenever the Domain is set and the Buffer is not empty, the Domain
\* lies within the Buffer's current extremes: xMin >= minT and xMax <= maxT.
C21_DomainWithinBuffer ==
  (chartDomain.set /\ Len(data) > 0) =>
    /\ ~RLt(chartDomain.xMin, MinT(data))
    /\ ~RLt(MaxT(data), chartDomain.xMax)

\* C22: the Domain is initialized only when the Buffer goes from empty to
\* non-empty: after an append to a Buffer that was not empty the effect
\* leaves a Domain chosen with follow-tail off as it is.
C22_InitOnlyOnFirstSample ==
  [][(DomainEffect /\ effDataLen > 0 /\ chartDomain.set /\ ~followTail) =>
       chartDomain' = chartDomain]_vars

\* C23: while follow-tail is on the window follows the Buffer: once the
\* page has rendered an update, xMax = maxT(Buffer), also when the Buffer is
\* at capacity and its length no longer changes.
C23_FollowTailTracks ==
  (followTail /\ chartDomain.set /\ Len(data) > 0 /\ effDataLen = Len(data)) =>
    chartDomain.xMax = MaxT(data)

\* C24: with an empty Buffer or no Domain, a zoom, a pan move and a reset
\* leave the Domain as it is.
C24_NoOpsWithoutData ==
  [][(Len(data) = 0 \/ ~chartDomain.set) =>
       (((\E mouseX \in PointerXs, deltaY \in WheelDeltas : HandleWheel(mouseX, deltaY))
           \/ (\E x \in PointerXs : HandleMouseMove(x))
           \/ HandleDoubleClick) =>
          chartDomain' = chartDomain)]_vars

\* C25: for a sample list S and the visibility flags, each visible channel
\* reports avg = sum(S.ch) / |S|, max = the largest value and last = the value
\* of the final sample; each hidden channel, and every channel of an empty S,
\* reports {0, 0, 0}.
C25_Aggregation ==
  (kpiFn \in {"kpiData", "memoizedKpiData"}) =>
    \A f \in {"speed", "current", "temp"} :
      LET n == Len(kpiInput)
          m == kpiOutput[f]
      IN IF n = 0 \/ ~series[f]
           THEN m = ZeroMetrics
           ELSE /\ RMul(m.avg, RInt(n)) = RInt(SumField(kpiInput, f, 0, n))
                /\ \E i \in 1..n : m.max = kpiInput[i][f]
                /\ \A i \in 1..n : m.max >= kpiInput[i][f]
                /\ m.last = kpiInput[n][f]

\* Two samples with negative speeds, temp hidden: max is the larger negative.
C25_Witness ==
  /\ kpiFn = "memoizedKpiData" /\ Len(kpiInput) = 2
  /\ series.speed /\ ~series.temp
  /\ kpiOutput.speed.max < 0 /\ kpiOutput.speed.avg = Rat(0 - 1, 1)
  /\ kpiOutput.temp = ZeroMetrics

\* C26: clear() empties the Buffer, sets the index to zero and leaves the
\* connection's state (connected, degraded, retry counter, latency) as it is.
C26_ClearFrame ==
  [][Clear =>
       /\ data' = <<>> /\ indexRef' = 0
       /\ UNCHANGED <<connected, isMockMode, attempts, latency>>]_vars

\* Samples were appended and cleared while the socket is connected and a
\* latency was measured.
C26_Witness ==
  /\ nextN > 1 /\ Len(data) = 0 /\ indexRef = 0
  /\ connected /\ latency # Num(0)

\* C27: every sample that enters the Buffer was in PendingBatch before and
\* is moved there by a flush; nothing writes to the Buffer directly.
C27_SamplesEnterThroughBatch ==
  [][\A i \in 1..Len(data') :
       (\A j \in 1..Len(data) : data[j] # data'[i]) =>
         (BatchFlush /\ \E k \in 1..Len(pendingData) : pendingData[k] = data'[i])]_vars

\* C28: when a socket closes while the synthetic fallback is enabled and the
\* manager is not degraded, the next state is Degraded directly: the
\* heartbeat is stopped, no reconnect timer is scheduled and the retry
\* counter is not incremented.
C28_FallbackOnClose ==
  [][\A s \in 1..MaxSockets :
       (SockClose(s) /\ MOCK_DATA_ENABLED /\ ~isMockMode) =>
         /\ isMockMode' /\ ~connected'
         /\ heartbeats' = {}
         /\ reconnectTimers' = reconnectTimers
         /\ attempts' = attempts]_vars

\* The first socket was open with its heartbeat, then closed: Degraded at
\* once, counter at 0, nothing scheduled.
C28_Witness ==
  /\ MOCK_DATA_ENABLED /\ isMockMode /\ ~connected
  /\ Len(socks) = 1 /\ socks[1].st = "closed" /\ heartbeatRef = 1
  /\ heartbeats = {} /\ reconnectTimers = {} /\ attempts = 0

EndTerminates ==
  \E s \in 1..MaxSockets, now \in NowChoices :
    /\ WsMessage(s, Msg("end", FALSE, 0, 0), now)
    /\ ~connected'
    /\ heartbeats' = {}

\* C30: an inbound `end` message ends the stream as a clean close: while
\* Connected on an open socket, its arrival takes the manager out of
\* Connected and stops the heartbeat.
C30_EndIsCleanClose ==
  (connected /\ \E s \in 1..Len(socks) : socks[s].st = "open") =>
    ENABLED EndTerminates

\* C31: every zoom that sets the Domain, in either dashboard, yields
\* minT <= xMin < xMax <= maxT for the Buffer's extremes.
C31_ZoomWithinBuffer ==
  [][((\E mouseX \in PointerXs, deltaY \in WheelDeltas :
         HandleWheel(mouseX, deltaY) \/ HandleWheel1(mouseX, deltaY))
      /\ chartDomain' # chartDomain) =>
       /\ chartDomain'.xMin # RNaN /\ chartDomain'.xMax # RNaN
       /\ ~RLt(chartDomain'.xMin, MinT(data))
       /\ RLt(chartDomain'.xMin, chartDomain'.xMax)
       /\ ~RLt(MaxT(data), chartDomain'.xMax)]_vars

\* The Buffer's extent maxT - minT, and currentSpan * (1 +- 0.1) held
\* between 2 s and 1.2 times the extent, the lower limit winning.
Extent(d) == RSub(MaxT(d), MinT(d))
ClampedSpan(dom, d, deltaY) ==
  LET want == RMul(Span(dom), IF deltaY > 0 THEN Rat(11, 10) ELSE Rat(9, 10))
      upper == RMul(Extent(d), Rat(6, 5))
      capped == IF RLt(upper, want) THEN upper ELSE want
  IN IF RLt(capped, RInt(2)) THEN RInt(2) ELSE capped

\* C32 as written: after every accepted zoom the span is
\* clamp(currentSpan * (1 +- 0.1), 2, 1.2 * (maxT - minT)) and lies between
\* 2 s and 1.2 * (maxT - minT), for every extent of the Buffer.
C32_SpanIsClampAsWritten ==
  [][\A mouseX \in PointerXs, deltaY \in WheelDeltas :
       (HandleWheel(mouseX, deltaY) /\ ZoomResult(chartDomain, data, mouseX, deltaY).ok) =>
         /\ Span(chartDomain') = ClampedSpan(chartDomain, data, deltaY)
         /\ ~RLt(Span(chartDomain'), RInt(2))
         /\ ~RLt(RMul(Extent(data), Rat(6, 5)), Span(chartDomain'))]_vars

\* C32 amended: after every accepted zoom the span is that clamp when it
\* fits the Buffer, and the Buffer's extent maxT - minT otherwise; it is
\* below 2 s only when the extent is.
C32_SpanIsClampOrExtent ==
  [][\A mouseX \in PointerXs, deltaY \in WheelDeltas :
       (HandleWheel(mouseX, deltaY) /\ ZoomResult(chartDomain, data, mouseX, deltaY).ok) =>
         LET c == ClampedSpan(chartDomain, data, deltaY) IN
           /\ Span(chartDomain') = (IF RLt(Extent(data), c) THEN Extent(data) ELSE c)
           /\ RLt(Span(chartDomain'), RInt(2)) => RLt(Extent(data), RInt(2))]_vars

\* Five samples spanning 1 s: the zoom asks for 2 s and the full extent
\* [0, 1] is set.
C32_Witness ==
  /\ Len(data) = 5 /\ nView = 1 /\ ~followTail /\ ~isDragging
  /\ chartDomain = Domain(R0, Rat(1, 1))

\* C33: every pan yields a Domain with xMin >= 0 and
\* xMax <= (sampleCount - 1) / hz, whatever the drag-start snapshot and
\* whatever happened to the Buffer since it was taken.
C33_PanWithinBounds ==
  [][\A x \in PointerXs :
       HandleMouseMove(x) =>
         /\ ~RLt(chartDomain'.xMin, R0)
         /\ ~RLt(RNorm(Len(data) - 1, hz), chartDomain'.xMax)]_vars

\* ---- LTTB buckets ----

\* An LTTB call that samples: n > budget > 2.
LTTBSampled == dsFn = "lttb" /\ Len(dsInput) > dsBudget /\ dsBudget > 2

\* The doubled area of the triangle (a, p, centroid of the source indices
\* lo .. hi - 1 of d), times the number of those points.
CentroidArea(d, a, p, lo, hi) ==
  Abs((a.t * (hi - lo) - SumField(d, "t", lo, hi)) * (p.speed - a.speed)
        - (a.t - p.t) * (SumField(d, "speed", lo, hi) - a.speed * (hi - lo)))

\* The bucket after bucketIndex as the claims describe it: the next
\* interior bucket, and for the last interior bucket the final input point.
NextPoints(bucketIndex, n, threshold) ==
  IF bucketIndex = threshold - 3
    THEN [lo |-> n - 1, hi |-> n]
    ELSE [lo |-> BucketStart(bucketIndex + 1, n, threshold),
          hi |-> BucketEnd(bucketIndex + 1, n, threshold)]

\* C34: the interior buckets are non-empty, contiguous and cover exactly
\* input[1..n-2], and the point emitted for each bucket is the earliest point
\* of the bucket with the largest triangle (previously emitted point,
\* candidate, centroid of the next bucket's points).
C34_LTTBSelection ==
  LTTBSampled =>
    LET n == Len(dsInput)
        th == dsBudget
    IN /\ BucketStart(0, n, th) = 1
       /\ BucketEnd(th - 3, n, th) = n - 1
       /\ \A b \in 0..(th - 3) :
            /\ BucketStart(b, n, th) < BucketEnd(b, n, th)
            /\ b < th - 3 => BucketEnd(b, n, th) = BucketStart(b + 1, n, th)
            /\ LET nx == NextPoints(b, n, th)
                   prev == dsOutput[b + 1]
                   area(j) == CentroidArea(dsInput, prev, dsInput[j + 1], nx.lo, nx.hi)
               IN \E j \in BucketStart(b, n, th)..(BucketEnd(b, n, th) - 1) :
                    /\ dsOutput[b + 2] = dsInput[j + 1]
                    /\ \A k \in BucketStart(b, n, th)..(BucketEnd(b, n, th) - 1) :
                         /\ area(k) <= area(j)
                         /\ k < j => area(k) < area(j)

\* C40: for every interior bucket, the last one included, the next bucket
\* whose centroid is the third vertex holds at least one input point.
C40_NextBucketNonEmpty ==
  LTTBSampled =>
    \A b \in 0..(dsBudget - 3) :
      NextBucketStart(b, Len(dsInput), dsBudget) < NextBucketEnd(b, Len(dsInput), dsBudget)

\* ---- The generator's timer ----

\* C35: pausing stops generation: while the hook is paused (from a pause until
\* the next play) no generator tick runs, so the write index does not advance
\* and no generator sample is appended, under any interleaving of play, pause
\* and timer ticks.
C35_PausedMeansNoTicks ==
  [][~playing => /\ ~(\E tm \in timers : HookTick(tm))
                 /\ indexRef' <= indexRef
                 /\ nextN' = nextN]_vars

\* C36: at most one generator tick timer exists, and the one that exists is
\* the one whose handle timerRef holds, so that pause can cancel it; in
\* particular after two play calls made from the same render.
C36_OneHeldTimer ==
  /\ Cardinality(timers) <= 1
  /\ \A tm \in timers : tm.id = timerRef

\* ---- clear() and the pending batch ----

C38_AttemptsInRange ==
  attempts \in 0..MaxAttempts

\* The counter at its maximum on the mounted page, fallback disabled, after
\* a connection had been open (and had reset the counter) along the way.
C38_Witness ==
  /\ ~MOCK_DATA_ENABLED /\ phase = "mounted"
  /\ attempts = MaxAttempts
  /\ pingSent

\* ---- The pan bounds and the Buffer ----

\* C39: the bounds pan clamps to agree with the Buffer in every reachable
\* state: the k-th buffered sample (counting from 0) has t = k / hz, so the
\* earliest t is 0 and the latest is (sampleCount - 1) / hz.
C39_PanBoundsAreBufferExtent ==
  Len(data) > 0 =>
    /\ \A k \in 1..Len(data) : Seconds(data[k].t) = RNorm(k - 1, hz)
    /\ MinT(data) = R0
    /\ MaxT(data) = RNorm(Len(data) - 1, hz)

====
